---- MODULE Spec2Model ----
(***************************************************************************)
(* A model of the estates scraper: the versioned SQLite store              *)
(* (Scraper.save_details_to_db, DatabaseManager.get_latest_listings), the  *)
(* store-to-store merge (merge_databases) and the menu page walker         *)
(* (Scraper.scrape_menu_pages).                                            *)
(*                                                                         *)
(* Three specifications share the variables:                               *)
(*   Spec      sequential store operations on two store files              *)
(*   SpecConc  two threads inside save_details_to_db on one Scraper         *)
(*   SpecWalk  the page walker, one step per fetch attempt                 *)
(***************************************************************************)
EXTENDS Integers, Sequences, FiniteSets, TLC

(***************************************************************************)
(* Bounds of the model.                                                    *)
(***************************************************************************)
\* rows the two store files may hold together before the model stops
\* appending, and rows the master may hold after a merge
MaxRows == 3
\* page indices the walker iterates over (config.TOTAL_PAGES scaled down)
MaxPages == 3

(***************************************************************************)
(* Values.                                                                 *)
(***************************************************************************)
\* Python's None, as returned by dict.get for a missing key / SQL NULL
None == "<None>"
\* the two store files: data/listings.db and a downloaded listings.db
Stores == {"master", "secondary"}
\* non-empty property_id strings the extractor can yield
PIDs == {"p1", "p2"}
\* values of the other text columns (listing_title stands for them all:
\* every one is passed through data_to_insert.get unchanged)
Titles == {"a", "b"}
\* the listings with a usable identity: p1 in two contents, p2 in one
Versions == {<<"p1", "a">>, <<"p1", "b">>, <<"p2", "a">>}

\* Scraper.fieldnames, restricted to the three columns the model carries
fieldnames == {"property_id", "listing_title", "features"}

\* the dicts handed to save_details_to_db: functions from keys to values.
\* <<>> is the empty dict; "junk" is a key outside fieldnames.
Listings ==
    {<< >>}
    \cup {[property_id |-> v[1], listing_title |-> v[2]] : v \in Versions}
    \cup {[property_id |-> p, listing_title |-> "a"] : p \in {None, ""}}
    \cup {[k \in {"listing_title"} |-> "a"]}
    \cup {[k \in {"property_id", "listing_title", "junk"} |->
             IF k = "property_id" THEN "p2" ELSE "a"]}

\* dict.get(key): None when the key is missing
Get(d, k) == IF k \in DOMAIN d THEN d[k] ELSE None

\* Python truthiness of a dict and of a str-or-None
DictTruthy(d) == DOMAIN d # {}
\* mutant: the identity check lets every value through
StrTruthy_Any(s) == TRUE
StrTruthy(s) == s # None /\ s # ""

\* data_to_insert = {k: v for k, v in listing_copy.items() if k in self.fieldnames}
FilterFields(d) == [k \in (DOMAIN d) \cap fieldnames |-> d[k]]

\* values of "features" that are Python lists: ["x", "y"] and []
ListValues == {"[x,y]", "[]"}

\* sep.join(v) for a list v
Join(sep, v) == IF v = "[x,y]" THEN "x" \o sep \o "y" ELSE ""

\* lines 184-185: `if isinstance(listing_copy.get("features"), list):
\* listing_copy["features"] = "; ".join(...)`
JoinFeatures(d) ==
    IF Get(d, "features") \in ListValues
    THEN [d EXCEPT !["features"] = Join("; ", @)]
    ELSE d

\* records that carry features, as a list or as a string
FeatureListings ==
    {[property_id |-> "p1", listing_title |-> "a", features |-> f] :
        f \in ListValues \cup {"x; y"}}

\* points inside the locked section where sqlite may raise:
\*   select     the SELECT COUNT fails, nothing was written
\*   insert     the INSERT fails, the implicit transaction stays open
\*   insert_rb  the INSERT fails and sqlite rolls the transaction back
\*   commit     the commit fails, the transaction stays open
Faults == {"none", "select", "insert", "insert_rb", "commit"}

VARIABLES
    view,      \* view[s]: rows of listings as the open connection on s sees them
    disk,      \* disk[s]: committed rows of listings in file s
    exists,    \* exists[s]: the file s exists (with its listings table)
    conn,      \* conn[s]: a Scraper/DatabaseManager holds an open connection on s
    lastOp,    \* the last store operation, its input, outcome and before-state
    \* ---- two threads in save_details_to_db (SpecConc)
    db_lock,   \* holder of Scraper.db_lock, or None
    tpc,       \* tpc[t]: position of thread t inside save_details_to_db
    tloc,      \* tloc[t]: locals of thread t (property_id, title, count, flag)
    \* ---- page walker (SpecWalk)
    wpc,       \* position of scrape_menu_pages
    page_num,
    retry,
    consecutive_http_errors,
    consecutive_empty_pages,
    stop_requested,
    all_scraped_urls,
    fetchLog,  \* history: the fetches and sleeps of the current page, in order
    pageLog,   \* history: one summary per page index the retry loop has left
    stopCause, \* history: who set stop_requested first
    \* ---- the URL manifest file
    manifest,  \* contents of URLS_OUTPUT_PATH: a JSON array, or NoFile
    \* ---- the session pool, DriverPool (SpecPool, SpecDetail)
    driver,    \* DriverPool.driver: the held session, or NoDriver
    live,      \* the sessions that were started and have not ended
    created,   \* number of sessions webdriver.Chrome has started
    lastPool,  \* history: the last operation on the pool and its outcome
    \* ---- the detail phase, process_listings_from_json (SpecDetail)
    dpc,       \* position of process_listings_from_json
    idx,       \* index in urls of the URL of the current iteration
    attempt,   \* the loop variable of scrape_with_retries
    result,    \* what scrape_with_retries returned for the current URL
    attemptLog, \* history: the attempts (and sleeps) of the current URL
    urlLog,    \* history: one summary per URL the loop has finished with
    loopExit   \* history: how the loop over urls was left

storeVars == <<view, disk, exists, conn, lastOp>>
concVars == <<db_lock, tpc, tloc>>
walkVars == <<wpc, page_num, retry, consecutive_http_errors,
              consecutive_empty_pages, stop_requested, all_scraped_urls, fetchLog,
              pageLog, stopCause>>
fileVars == <<manifest>>
poolVars == <<driver, live, created, lastPool>>
detailVars == <<dpc, idx, attempt, result, attemptLog, urlLog, loopExit>>
\* the walker's variables but the stop flag, which the phases share
walkRest == <<wpc, page_num, retry, consecutive_http_errors,
              consecutive_empty_pages, all_scraped_urls, fetchLog, pageLog,
              stopCause>>
vars == <<view, disk, exists, conn, lastOp, db_lock, tpc, tloc,
          wpc, page_num, retry, consecutive_http_errors,
          consecutive_empty_pages, stop_requested, all_scraped_urls, fetchLog,
          pageLog, stopCause, manifest, driver, live, created, lastPool,
          dpc, idx, attempt, result, attemptLog, urlLog, loopExit>>

(***************************************************************************)
(* The listings table.  A row carries the AUTOINCREMENT id, property_id,   *)
(* listing_title and has_updated.                                          *)
(***************************************************************************)
Max(S) == CHOOSE x \in S : \A y \in S : y <= x

Ids(rows) == {r.id : r \in rows}

\* id INTEGER PRIMARY KEY AUTOINCREMENT: one more than the largest id used.
\* Nothing in the program deletes rows, so that is the largest id present.
NextId(rows) == IF rows = {} THEN 1 ELSE Max(Ids(rows)) + 1

\* SELECT COUNT(*) FROM listings WHERE property_id = ?
CountRows(rows, pid) == Cardinality({r \in rows : r.property_id = pid})

\* mutant: the UPDATE without its WHERE clause
FlagRows_NoWhere(rows, pid) ==
    {[r EXCEPT !.has_updated = 1] : r \in rows}

\* UPDATE listings SET has_updated = 1 WHERE property_id = ?
FlagRows(rows, pid) ==
    {IF r.property_id = pid THEN [r EXCEPT !.has_updated = 1] ELSE r : r \in rows}

\* INSERT INTO listings (...) VALUES (..., has_updated_flag, CURRENT_TIMESTAMP)
InsertRow(rows, data, flag) ==
    rows \cup {[id |-> NextId(rows),
                property_id |-> Get(data, "property_id"),
                listing_title |-> Get(data, "listing_title"),
                features |-> Get(data, "features"),
                has_updated |-> flag]}

\* mutant: the new row is never flagged
FlagFor_Zero(count) == 0

\* has_updated_flag: 0, or 1 when count > 0
FlagFor(count) == IF count > 0 THEN 1 ELSE 0

\* the rows after the count check and the conditional UPDATE
AfterUpdate(rows, pid) ==
    IF CountRows(rows, pid) > 0 THEN FlagRows(rows, pid) ELSE rows

Min(S) == CHOOSE x \in S : \A y \in S : x <= y

\* mutant: MIN(id) in place of MAX(id)
LatestRows_Min(rows) ==
    LET groups == {r.property_id : r \in rows}
        minIds == {Min({r.id : r \in {x \in rows : x.property_id = g}}) : g \in groups}
    IN  {r \in rows : r.id \in minIds}

\* SELECT * FROM listings WHERE id IN (SELECT MAX(id) FROM listings GROUP BY property_id)
LatestRows(rows) ==
    LET groups == {r.property_id : r \in rows}
        maxIds == {Max({r.id : r \in {x \in rows : x.property_id = g}}) : g \in groups}
    IN  {r \in rows : r.id \in maxIds}

\* mutant: the WHERE clause lets every row through
NotIn_Any(x, S) == TRUE

\* x NOT IN (SELECT property_id FROM main.listings), with SQL's NULL rules:
\* true over an empty set, unknown (not true) when NULL is involved
NotIn(x, S) ==
    IF S = {} THEN TRUE ELSE x # None /\ None \notin S /\ x \notin S

\* mutant: a full-row test in place of the identity test
MergeSelect_ByContent(m, d) ==
    {r \in d : \A x \in m : x.property_id # r.property_id
                              \/ x.listing_title # r.listing_title}

\* the rows selected FROM downloaded.listings by the merge query
MergeSelect(m, d) ==
    {r \in d : NotIn(r.property_id, {x.property_id : x \in m})}

\* position of r among rows in rowid order (the scan order of the SELECT)
Rank(r, rows) == Cardinality({x \in rows : x.id <= r.id})

\* INSERT INTO listings (all columns but id) SELECT ... : the selected rows
\* get fresh ids in the master; has_updated is copied
MergeRows(m, d) ==
    LET sel == MergeSelect(m, d)
        base == NextId(m) - 1
    IN  m \cup {[r EXCEPT !.id = base + Rank(r, sel)] : r \in sel}

\* mutant: the existence check is missing
PathExists_Always(s) == TRUE

\* os.path.exists(downloaded_db_path)
PathExists(s) == exists[s]

(***************************************************************************)
(* Store operations (Spec).                                                *)
(***************************************************************************)
NoRows == {}
NoOp == [op |-> "none", store |-> "none", listing |-> << >>, outcome |-> "none",
         before |-> NoRows, result |-> NoRows, reported |-> -1, twice |-> FALSE,
         opened |-> FALSE]

\* Scraper.save_details_to_db on store s: the connection's view, the
\* committed rows and the outcome afterwards
SaveResult(s, listing, fault) ==
    LET data == FilterFields(JoinFeatures(listing))
        property_id == Get(data, "property_id")
        rows0 == view[s]
        rows1 == AfterUpdate(rows0, property_id)
        rows2 == InsertRow(rows1, data, FlagFor(CountRows(rows0, property_id)))
        R(v, d, o) == [view |-> v, disk |-> d, outcome |-> o]
    IN  IF ~DictTruthy(listing) \/ ~conn[s] THEN R(rows0, disk[s], "noop")
        ELSE IF ~StrTruthy(property_id) THEN R(rows0, disk[s], "skipped")
        ELSE CASE fault = "select" -> R(rows0, disk[s], "error")
               [] fault = "insert" -> R(rows1, disk[s], "error")
               [] fault = "insert_rb" -> R(disk[s], disk[s], "error")
               [] fault = "commit" -> R(rows2, disk[s], "error")
               [] OTHER -> R(rows2, rows2, "saved")

\* history: the call continues a saved append of the same listing that found
\* no row of its identity
SecondOfTwo(s, listing) ==
    /\ lastOp.op = "append" /\ lastOp.store = s /\ lastOp.outcome = "saved"
    /\ lastOp.listing = listing
    /\ CountRows(lastOp.before, Get(listing, "property_id")) = 0

\* the call gets as far as the locked section, where sqlite can fail
EntersLock(s, listing) ==
    /\ DictTruthy(listing) /\ conn[s]
    /\ StrTruthy(Get(FilterFields(listing), "property_id"))

\* one call of save_details_to_db(listing); every exception is caught inside
save_details_to_db(s, listing, fault) ==
    /\ exists[s]
    /\ Cardinality(view["master"]) + Cardinality(view["secondary"]) < MaxRows
    /\ LET res == SaveResult(s, listing, fault)
       IN  /\ view' = [view EXCEPT ![s] = res.view]
           /\ disk' = [disk EXCEPT ![s] = res.disk]
           /\ lastOp' = [NoOp EXCEPT !.op = "append", !.store = s,
                                     !.listing = listing, !.outcome = res.outcome,
                                     !.before = view[s],
                                     !.twice = SecondOfTwo(s, listing)]
    /\ UNCHANGED <<exists, conn>>

\* Scraper.__init__ / _init_db: connect (creating the file) and
\* CREATE TABLE IF NOT EXISTS
init_db(s) ==
    /\ ~conn[s]
    /\ conn' = [conn EXCEPT ![s] = TRUE]
    /\ exists' = [exists EXCEPT ![s] = TRUE]
    /\ lastOp' = [NoOp EXCEPT !.op = "open", !.store = s, !.before = view[s]]
    /\ UNCHANGED <<view, disk>>

\* Scraper._close_db: closing the connection drops an open transaction
close_db(s) ==
    /\ conn[s]
    /\ conn' = [conn EXCEPT ![s] = FALSE]
    /\ view' = [view EXCEPT ![s] = disk[s]]
    /\ lastOp' = [NoOp EXCEPT !.op = "close", !.store = s, !.before = view[s]]
    /\ UNCHANGED <<disk, exists>>

\* DatabaseManager.get_latest_listings: a read through self.conn
get_latest_listings(s) ==
    /\ exists[s]
    /\ lastOp' = [NoOp EXCEPT !.op = "latest", !.store = s, !.before = view[s],
                              !.outcome = IF conn[s] THEN "rows" ELSE "raised",
                              !.result = IF conn[s] THEN LatestRows(view[s]) ELSE NoRows]
    /\ UNCHANGED <<view, disk, exists, conn>>

\* outcome of merge_databases: the secondary path is missing; the master is
\* write-locked by a connection holding an open transaction (the INSERT raises
\* and the error is caught and printed); or the INSERT ... SELECT ran
MergeOutcome ==
    IF ~PathExists("secondary") THEN "not_found"
    ELSE IF view["master"] # disk["master"] THEN "locked"
    ELSE "merged"

\* merge_databases("listings.db", "data/listings.db"): secondary into master,
\* in a process of its own with a connection of its own
merge_databases ==
    /\ LET m == disk["master"]
           d == disk["secondary"]
           out == MergeOutcome
           new == IF out = "merged" THEN MergeRows(m, d) ELSE m
       IN  /\ Cardinality(new) <= MaxRows
           /\ disk' = [disk EXCEPT !["master"] = new]
           /\ view' = [view EXCEPT !["master"] =
                          IF out = "merged" THEN new ELSE view["master"]]
           /\ lastOp' = [NoOp EXCEPT !.op = "merge", !.store = "master",
                                     !.outcome = out,
                                     !.before = m,
                                     !.twice = (lastOp.op = "merge"
                                                /\ lastOp.outcome = "merged"),
                                     !.opened = (out # "not_found"),
                                     !.reported = IF out = "merged"
                                                  THEN Cardinality(MergeSelect(m, d))
                                                  ELSE -1]
    /\ UNCHANGED <<exists, conn>>

EmptyStore == [s \in Stores |-> NoRows]

StoreInit ==
    /\ view = EmptyStore
    /\ disk = EmptyStore
    /\ exists = [s \in Stores |-> s = "master"]
    /\ conn = [s \in Stores |-> s = "master"]
    /\ lastOp = NoOp

ConcIdle ==
    /\ db_lock = None
    /\ tpc = << >>
    /\ tloc = << >>

WalkIdle ==
    /\ wpc = "idle"
    /\ page_num = 0
    /\ retry = 0
    /\ consecutive_http_errors = 0
    /\ consecutive_empty_pages = 0
    /\ stop_requested = FALSE
    /\ all_scraped_urls = {}
    /\ fetchLog = << >>
    /\ pageLog = << >>
    /\ stopCause = "none"

\* URLS_OUTPUT_PATH has not been written
NoFile == <<None>>

FileIdle == manifest = NoFile

\* DriverPool.driver is None
NoDriver == [id |-> 0, session_id |-> FALSE]

NoPoolOp == [op |-> "none", outcome |-> "none", before |-> NoDriver,
             stop |-> FALSE, started |-> 0]

PoolIdle ==
    /\ driver = NoDriver
    /\ live = {}
    /\ created = 0
    /\ lastPool = NoPoolOp

\* scrape_with_retries has returned None (or has not returned yet)
NoResult == [none |-> TRUE]

DetailIdle ==
    /\ dpc = "idle"
    /\ idx = 0
    /\ attempt = 0
    /\ result = NoResult
    /\ attemptLog = << >>
    /\ urlLog = << >>
    /\ loopExit = "none"

Init == StoreInit /\ ConcIdle /\ WalkIdle /\ FileIdle /\ PoolIdle /\ DetailIdle

\* The master is the store of the Scraper under study: every operation and
\* every sqlite failure.  The secondary is the file a remote run left behind:
\* it is created and appended to, and merge reads its committed rows.
Next ==
    \/ \E l \in Listings, f \in Faults :
          /\ EntersLock("master", l) \/ f = "none"
          /\ save_details_to_db("master", l, f)
          /\ UNCHANGED <<concVars, walkVars, fileVars, poolVars, detailVars>>
    \/ \E l \in Listings :
          save_details_to_db("secondary", l, "none") /\ UNCHANGED <<concVars, walkVars, fileVars, poolVars, detailVars>>
    \/ \E s \in Stores : init_db(s) /\ UNCHANGED <<concVars, walkVars, fileVars, poolVars, detailVars>>
    \/ close_db("master") /\ UNCHANGED <<concVars, walkVars, fileVars, poolVars, detailVars>>
    \/ get_latest_listings("master") /\ UNCHANGED <<concVars, walkVars, fileVars, poolVars, detailVars>>
    \/ merge_databases /\ UNCHANGED <<concVars, walkVars, fileVars, poolVars, detailVars>>

Spec == Init /\ [][Next]_vars

(***************************************************************************)
(* Two threads in save_details_to_db on one Scraper (SpecConc).  Each      *)
(* statement of the locked section is a step, so that the steps of the two *)
(* calls can interleave wherever db_lock lets them.                        *)
(***************************************************************************)
Threads == {"t1", "t2"}

NoLocals == [listing |-> << >>, count |-> -1, flag |-> 0, outcome |-> "none"]

\* the store the two calls start from: empty, or holding one appended row
InitialStores ==
    {NoRows} \cup {InsertRow(NoRows, [property_id |-> v[1], listing_title |-> v[2]], 0) :
                     v \in Versions}

\* mutant: the lock excludes nobody
LockFree_Always(t) == TRUE

\* `with self.db_lock:` can be entered
LockFree(t) == db_lock = None

\* the thread holds db_lock
InSection(t) == tpc[t] \in {"select", "update", "insert", "commit", "release"}

\* lines 179-196: the checks before the lock
TCall(t, listing) ==
    /\ tpc[t] = "idle"
    /\ LET property_id == Get(FilterFields(listing), "property_id")
           out == IF ~DictTruthy(listing) \/ ~conn["master"] THEN "noop"
                  ELSE IF ~StrTruthy(property_id) THEN "skipped"
                  ELSE "none"
       IN  /\ tloc' = [tloc EXCEPT ![t] = [NoLocals EXCEPT !.listing = listing,
                                                           !.outcome = out]]
           /\ tpc' = [tpc EXCEPT ![t] = IF out = "none" THEN "lock" ELSE "done"]
    /\ UNCHANGED <<db_lock, view, disk>>

\* line 198: with self.db_lock
TAcquire(t) ==
    /\ tpc[t] = "lock"
    /\ LockFree(t)
    /\ db_lock' = t
    /\ tpc' = [tpc EXCEPT ![t] = "select"]
    /\ UNCHANGED <<tloc, view, disk>>

\* lines 203-208: SELECT COUNT(*), has_updated_flag = 0, if count > 0
TSelect(t, fault) ==
    /\ tpc[t] = "select"
    /\ fault \in {"none", "select"}
    /\ LET count == CountRows(view["master"], Get(tloc[t].listing, "property_id"))
       IN  IF fault = "select"
           THEN /\ tloc' = [tloc EXCEPT ![t].outcome = "error"]
                /\ tpc' = [tpc EXCEPT ![t] = "release"]
           ELSE /\ tloc' = [tloc EXCEPT ![t].count = count, ![t].flag = 0]
                /\ tpc' = [tpc EXCEPT ![t] = IF count > 0 THEN "update" ELSE "insert"]
    /\ UNCHANGED <<db_lock, view, disk>>

\* lines 211-213: UPDATE ... SET has_updated = 1, has_updated_flag = 1
TUpdate(t) ==
    /\ tpc[t] = "update"
    /\ view' = [view EXCEPT !["master"] =
                   FlagRows(view["master"], Get(tloc[t].listing, "property_id"))]
    /\ tloc' = [tloc EXCEPT ![t].flag = 1]
    /\ tpc' = [tpc EXCEPT ![t] = "insert"]
    /\ UNCHANGED <<db_lock, disk>>

\* lines 217-240: the INSERT
TInsert(t, fault) ==
    /\ tpc[t] = "insert"
    /\ fault \in {"none", "insert", "insert_rb"}
    /\ CASE fault = "insert" ->
              /\ tloc' = [tloc EXCEPT ![t].outcome = "error"]
              /\ tpc' = [tpc EXCEPT ![t] = "release"]
              /\ UNCHANGED view
         [] fault = "insert_rb" ->
              /\ tloc' = [tloc EXCEPT ![t].outcome = "error"]
              /\ tpc' = [tpc EXCEPT ![t] = "release"]
              /\ view' = [view EXCEPT !["master"] = disk["master"]]
         [] OTHER ->
              /\ view' = [view EXCEPT !["master"] =
                            InsertRow(view["master"], FilterFields(tloc[t].listing),
                                      tloc[t].flag)]
              /\ tpc' = [tpc EXCEPT ![t] = "commit"]
              /\ UNCHANGED tloc
    /\ UNCHANGED <<db_lock, disk>>

\* line 241: self.conn.commit()
TCommit(t, fault) ==
    /\ tpc[t] = "commit"
    /\ fault \in {"none", "commit"}
    /\ IF fault = "commit"
       THEN /\ tloc' = [tloc EXCEPT ![t].outcome = "error"]
            /\ UNCHANGED disk
       ELSE /\ tloc' = [tloc EXCEPT ![t].outcome = "saved"]
            /\ disk' = [disk EXCEPT !["master"] = view["master"]]
    /\ tpc' = [tpc EXCEPT ![t] = "release"]
    /\ UNCHANGED <<db_lock, view>>

\* leaving the with block, by its end or through the except clause
TRelease(t) ==
    /\ tpc[t] = "release"
    /\ db_lock' = None
    /\ tpc' = [tpc EXCEPT ![t] = "done"]
    /\ UNCHANGED <<tloc, view, disk>>

ConcInit ==
    /\ \E rows \in InitialStores :
          /\ view = [s \in Stores |-> IF s = "master" THEN rows ELSE NoRows]
          /\ disk = [s \in Stores |-> IF s = "master" THEN rows ELSE NoRows]
          /\ lastOp = [NoOp EXCEPT !.op = "start", !.store = "master", !.before = rows]
    /\ exists = [s \in Stores |-> s = "master"]
    /\ conn = [s \in Stores |-> s = "master"]
    /\ db_lock = None
    /\ tpc = [t \in Threads |-> "idle"]
    /\ tloc = [t \in Threads |-> NoLocals]
    /\ WalkIdle
    /\ FileIdle
    /\ PoolIdle
    /\ DetailIdle

ConcNext ==
    \/ \E t \in Threads, l \in Listings :
          TCall(t, l) /\ UNCHANGED <<exists, conn, lastOp, walkVars, fileVars, poolVars, detailVars>>
    \/ \E t \in Threads : TAcquire(t) /\ UNCHANGED <<exists, conn, lastOp, walkVars, fileVars, poolVars, detailVars>>
    \/ \E t \in Threads, f \in Faults :
          TSelect(t, f) /\ UNCHANGED <<exists, conn, lastOp, walkVars, fileVars, poolVars, detailVars>>
    \/ \E t \in Threads : TUpdate(t) /\ UNCHANGED <<exists, conn, lastOp, walkVars, fileVars, poolVars, detailVars>>
    \/ \E t \in Threads, f \in Faults :
          TInsert(t, f) /\ UNCHANGED <<exists, conn, lastOp, walkVars, fileVars, poolVars, detailVars>>
    \/ \E t \in Threads, f \in Faults :
          TCommit(t, f) /\ UNCHANGED <<exists, conn, lastOp, walkVars, fileVars, poolVars, detailVars>>
    \/ \E t \in Threads : TRelease(t) /\ UNCHANGED <<exists, conn, lastOp, walkVars, fileVars, poolVars, detailVars>>

SpecConc == ConcInit /\ [][ConcNext]_vars


(***************************************************************************)
(* The page walker, Scraper.scrape_menu_pages (SpecWalk).  One step per    *)
(* loop head, per answer of requests.get and per time.sleep, so that       *)
(* stop_requested can be set from outside between any two of them.         *)
(***************************************************************************)
\* config.MAX_RETRIES
MAX_RETRIES == 3
\* config.TOTAL_PAGES, scaled down to the bound of the model
TOTAL_PAGES == MaxPages
\* the literal 3 of `if consecutive_http_errors >= 3` and
\* `if consecutive_empty_pages >= 3`
BreakerThreshold == 3

\* listing URLs, and the link sets get_listing_urls can extract from a page
URLs == {"u1", "u2"}
LinkSets == {{}, {"u1"}, {"u1", "u2"}}

\* what requests.get can bring: a page with links, a 4xx/5xx status, an
\* empty body, or a requests.exceptions.RequestException
FetchOutcomes ==
    {[kind |-> "ok", links |-> ls] : ls \in LinkSets}
    \cup {[kind |-> k, links |-> {}] : k \in {"http", "empty", "net"}}

Fetched == SelectSeq(fetchLog, LAMBDA k : k # "sleep")

\* the summary of the page the retry loop is leaving
PageSummary(res, kinds, links) ==
    [page |-> page_num, result |-> res, links |-> links # {}, got |-> links,
     nfetch |-> Len(kinds),
     allHttp |-> Len(kinds) = MAX_RETRIES /\ \A i \in 1..Len(kinds) : kinds[i] = "http",
     allFailed |-> Len(kinds) = MAX_RETRIES /\ \A i \in 1..Len(kinds) : kinds[i] # "ok"]

LeavePage(res, kinds, links) ==
    /\ pageLog' = Append(pageLog, PageSummary(res, kinds, links))
    /\ wpc' = "page_end"

\* lines 264-265: consecutive_http_errors = 0, consecutive_empty_pages = 0
CounterAtPageTop(c) == 0

\* mutant: the set is replaced by the links of the page
SetUpdate_Replace(urls, links) == links

\* line 293: self.all_scraped_urls.update(links)
SetUpdate(urls, links) == urls \cup links

\* lines 258-265: the head of the page loop
PageTop ==
    /\ wpc = "page_top"
    /\ IF stop_requested
       THEN /\ wpc' = "returned"
            /\ UNCHANGED <<retry, consecutive_http_errors, consecutive_empty_pages,
                           fetchLog>>
       ELSE /\ wpc' = "attempt"
            /\ retry' = 0
            /\ consecutive_http_errors' = CounterAtPageTop(consecutive_http_errors)
            /\ consecutive_empty_pages' = CounterAtPageTop(consecutive_empty_pages)
            /\ fetchLog' = << >>
    /\ UNCHANGED <<page_num, stop_requested, all_scraped_urls, pageLog, stopCause>>

\* lines 267-269 and 305-306: the head of the retry loop and its else clause
AttemptHead ==
    /\ wpc = "attempt"
    /\ IF retry = MAX_RETRIES
       THEN LeavePage("exhausted", Fetched, {})
       ELSE IF stop_requested
       THEN LeavePage("stopped", Fetched, {})
       ELSE wpc' = "fetching" /\ UNCHANGED pageLog
    /\ UNCHANGED <<page_num, retry, consecutive_http_errors, consecutive_empty_pages,
                   stop_requested, all_scraped_urls, fetchLog, stopCause>>

\* lines 297-299 and 302-304: the handler of a failed attempt
AfterFailure(kinds) ==
    IF stop_requested
    THEN LeavePage("stopped", kinds, {})
    ELSE wpc' = "sleep" /\ UNCHANGED pageLog

\* lines 272-304: requests.get answers and the answer is handled
FetchReturns(o) ==
    /\ wpc = "fetching"
    /\ LET kinds == Append(Fetched, o.kind)
       IN  /\ fetchLog' = Append(fetchLog, o.kind)
           /\ CASE o.kind = "http" ->
                   /\ consecutive_http_errors' = consecutive_http_errors + 1
                   /\ IF consecutive_http_errors + 1 >= BreakerThreshold
                      THEN /\ stop_requested' = TRUE
                           /\ stopCause' = IF stop_requested THEN stopCause ELSE "http"
                           /\ LeavePage("tripped", kinds, {})
                      ELSE /\ AfterFailure(kinds)
                           /\ UNCHANGED <<stop_requested, stopCause>>
                   /\ UNCHANGED <<consecutive_empty_pages, all_scraped_urls>>
                [] o.kind = "empty" ->
                   /\ consecutive_empty_pages' = consecutive_empty_pages + 1
                   /\ IF consecutive_empty_pages + 1 >= BreakerThreshold
                      THEN /\ stop_requested' = TRUE
                           /\ stopCause' = IF stop_requested THEN stopCause ELSE "empty"
                           /\ LeavePage("tripped", kinds, {})
                      ELSE /\ AfterFailure(kinds)
                           /\ UNCHANGED <<stop_requested, stopCause>>
                   /\ UNCHANGED <<consecutive_http_errors, all_scraped_urls>>
                [] o.kind = "net" ->
                   /\ AfterFailure(kinds)
                   /\ UNCHANGED <<consecutive_http_errors, consecutive_empty_pages,
                                  stop_requested, stopCause, all_scraped_urls>>
                [] OTHER ->
                   /\ consecutive_http_errors' = 0
                   /\ consecutive_empty_pages' = 0
                   /\ all_scraped_urls' = SetUpdate(all_scraped_urls, o.links)
                   /\ LeavePage("ok", kinds, o.links)
                   /\ UNCHANGED <<stop_requested, stopCause>>
    /\ UNCHANGED <<page_num, retry>>

\* lines 299 and 304: time.sleep(RETRY_DELAY), then the next retry
SleepDone ==
    /\ wpc = "sleep"
    /\ fetchLog' = Append(fetchLog, "sleep")
    /\ retry' = retry + 1
    /\ wpc' = "attempt"
    /\ UNCHANGED <<page_num, consecutive_http_errors, consecutive_empty_pages,
                   stop_requested, all_scraped_urls, pageLog, stopCause>>

\* mutant: the loop stays on the same index
NextIndex_Same(p) == p

\* `for page_num in range(1, TOTAL_PAGES + 1)`: the index after p
NextIndex(p) == p + 1

\* lines 308-310: the stop check after the retry loop, the next index of
\* range(1, TOTAL_PAGES + 1), or the return
PageEnd ==
    /\ wpc = "page_end"
    /\ IF stop_requested \/ page_num = TOTAL_PAGES
       THEN wpc' = "returned" /\ UNCHANGED page_num
       ELSE wpc' = "page_top" /\ page_num' = NextIndex(page_num)
    /\ UNCHANGED <<retry, consecutive_http_errors, consecutive_empty_pages,
                   stop_requested, all_scraped_urls, fetchLog, pageLog, stopCause>>

\* stop_requested.set() from outside the walker (Scraper.shutdown)
ExternalStop ==
    /\ wpc \notin {"idle", "returned", "saved"}
    /\ ~stop_requested
    /\ stop_requested' = TRUE
    /\ stopCause' = "external"
    /\ UNCHANGED <<wpc, page_num, retry, consecutive_http_errors,
                   consecutive_empty_pages, all_scraped_urls, fetchLog, pageLog>>

\* the elements of a sequence
Range(seq) == {seq[i] : i \in 1..Len(seq)}

\* list(urls_to_save): the elements of the set, each once, in any order
ListsOf(S) == {l \in [1..Cardinality(S) -> S] : Range(l) = S}

\* line 313: `if not urls_to_save`
NothingToSave(urls_to_save) == urls_to_save = {}

\* lines 312-318 called as in run_scrape_urls, save_urls(scrape_menu_pages()):
\* an empty set is logged and the file is left as it is, any other set
\* replaces the file by json.dump(list(urls_to_save))
save_urls ==
    /\ wpc = "returned"
    /\ wpc' = "saved"
    /\ IF NothingToSave(all_scraped_urls)
       THEN UNCHANGED manifest
       ELSE manifest' \in ListsOf(all_scraped_urls)
    /\ UNCHANGED <<page_num, retry, consecutive_http_errors, consecutive_empty_pages,
                   stop_requested, all_scraped_urls, fetchLog, pageLog, stopCause>>

\* the manifests an earlier run can have left at URLS_OUTPUT_PATH
EarlierManifests == {NoFile, <<"u1">>}

WalkInit ==
    /\ manifest \in EarlierManifests
    /\ PoolIdle
    /\ DetailIdle
    /\ StoreInit
    /\ ConcIdle
    /\ wpc = "page_top"
    /\ page_num = 1
    /\ retry = 0
    /\ consecutive_http_errors = 0
    /\ consecutive_empty_pages = 0
    /\ stop_requested = FALSE
    /\ all_scraped_urls = {}
    /\ fetchLog = << >>
    /\ pageLog = << >>
    /\ stopCause = "none"

WalkNext ==
    \/ PageTop /\ UNCHANGED <<storeVars, concVars, fileVars, poolVars, detailVars>>
    \/ AttemptHead /\ UNCHANGED <<storeVars, concVars, fileVars, poolVars, detailVars>>
    \/ \E o \in FetchOutcomes : FetchReturns(o) /\ UNCHANGED <<storeVars, concVars, fileVars, poolVars, detailVars>>
    \/ SleepDone /\ UNCHANGED <<storeVars, concVars, fileVars, poolVars, detailVars>>
    \/ PageEnd /\ UNCHANGED <<storeVars, concVars, fileVars, poolVars, detailVars>>
    \/ ExternalStop /\ UNCHANGED <<storeVars, concVars, fileVars, poolVars, detailVars>>
    \/ save_urls /\ UNCHANGED <<storeVars, concVars, poolVars, detailVars>>

SpecWalk == WalkInit /\ [][WalkNext]_vars

\* the walker runs in a thread of its own and every requests.get comes back
\* (timeout=10), every time.sleep ends: it always takes its next step
SpecWalkFair == SpecWalk /\ WF_vars(WalkNext)


(***************************************************************************)
(* The session pool, DriverPool (SpecPool).  A session is a record of its  *)
(* number and of what `driver.session_id` tells; `live` holds the sessions *)
(* webdriver.Chrome has started and nobody has ended.                      *)
(***************************************************************************)
\* bound on the sessions started in SpecPool
MaxSessions == 3

\* `if self.driver` (a WebDriver object is truthy, None is not)
Held(d) == d.id # 0

\* mutant: the held session is never found active
Active_Never(d) == FALSE

\* line 67: `self.driver and self.driver.session_id`
Active(d) == Held(d) /\ d.session_id

\* driver.quit() can end the session or raise
QuitOutcomes == {"ok", "raised"}

\* lines 31-51, _init_driver: webdriver.Chrome(...) is assigned to
\* self.driver, or RuntimeError is raised and self.driver keeps its value
InitDriver(d, lv, cr, initOk) ==
    IF initOk
    THEN [driver |-> [id |-> cr + 1, session_id |-> TRUE],
          live |-> lv \cup {cr + 1}, created |-> cr + 1, outcome |-> "returned"]
    ELSE [driver |-> d, live |-> lv, created |-> cr, outcome |-> "init_failed"]

\* lines 64-72, acquire: the cancellation error under the stop flag, the
\* held session when it is active, a new one otherwise
AcquireResult(d, lv, cr, stop, initOk) ==
    IF stop
    THEN [driver |-> d, live |-> lv, created |-> cr, outcome |-> "cancelled"]
    ELSE IF Active(d)
    THEN [driver |-> d, live |-> lv, created |-> cr, outcome |-> "returned"]
    ELSE InitDriver(d, lv, cr, initOk)

\* lines 80-85 and 425-430: `if driver: try: driver.quit(); driver = None
\* except Exception: log`.  The assignment follows quit() inside the try, so
\* it is skipped when quit() raises.
QuitAndClear(d, lv, q) ==
    IF ~Held(d)
    THEN [driver |-> d, live |-> lv, outcome |-> "nothing"]
    ELSE IF q = "ok"
    THEN [driver |-> NoDriver, live |-> lv \ {d.id}, outcome |-> "closed"]
    ELSE [driver |-> d, live |-> lv, outcome |-> "quit_raised"]

PoolOp(op, outcome, cr) ==
    [op |-> op, outcome |-> outcome, before |-> driver, stop |-> stop_requested,
     started |-> cr - created]

\* DriverPool.acquire()
acquire(initOk) ==
    /\ created < MaxSessions
    /\ LET r == AcquireResult(driver, live, created, stop_requested, initOk)
       IN  /\ driver' = r.driver
           /\ live' = r.live
           /\ created' = r.created
           /\ lastPool' = PoolOp("acquire", r.outcome, r.created)

\* DriverPool.close_all()
close_all(q) ==
    /\ LET r == QuitAndClear(driver, live, q)
       IN  /\ driver' = r.driver
           /\ live' = r.live
           /\ lastPool' = PoolOp("close_all", r.outcome, created)
    /\ UNCHANGED created

\* the WebDriverException handler of extract_listing_details, lines 423-431
discard_failed(q) ==
    /\ LET r == QuitAndClear(driver, live, q)
       IN  /\ driver' = r.driver
           /\ live' = r.live
           /\ lastPool' = PoolOp("discard", r.outcome, created)
    /\ UNCHANGED created

\* the held session ends on the browser's side: session_id no longer set
SessionDrops ==
    /\ Active(driver)
    /\ driver' = [driver EXCEPT !.session_id = FALSE]
    /\ live' = live \ {driver.id}
    /\ lastPool' = PoolOp("drop", "dropped", created)
    /\ UNCHANGED created

\* stop_requested.set()
SetStop ==
    /\ ~stop_requested
    /\ stop_requested' = TRUE

\* DriverPool.__init__: the first session is started with the pool
PoolStarted ==
    /\ driver = [id |-> 1, session_id |-> TRUE]
    /\ live = {1}
    /\ created = 1
    /\ lastPool = NoPoolOp

PoolInit ==
    /\ StoreInit
    /\ ConcIdle
    /\ WalkIdle
    /\ FileIdle
    /\ DetailIdle
    /\ PoolStarted

poolFrame == <<storeVars, concVars, walkRest, fileVars, detailVars>>

PoolNext ==
    \/ \E initOk \in BOOLEAN :
          acquire(initOk) /\ UNCHANGED <<poolFrame, stop_requested>>
    \/ \E q \in QuitOutcomes :
          close_all(q) /\ UNCHANGED <<poolFrame, stop_requested>>
    \/ \E q \in QuitOutcomes :
          discard_failed(q) /\ UNCHANGED <<poolFrame, stop_requested>>
    \/ SessionDrops /\ UNCHANGED <<poolFrame, stop_requested>>
    \/ SetStop /\ UNCHANGED <<poolFrame, poolVars>>

SpecPool == PoolInit /\ [][PoolNext]_vars


(***************************************************************************)
(* The detail phase, Scraper.process_listings_from_json (SpecDetail): the  *)
(* loop over the manifest, scrape_with_retries, extract_listing_details on *)
(* the pool's session, save_details_to_db on the master store, shutdown.   *)
(* One step per loop head, per call of extract_listing_details and per     *)
(* iteration's save.                                                       *)
(***************************************************************************)
\* the records extract_listing_details can build from a page
Extracted ==
    {[property_id |-> "p1", listing_title |-> t] : t \in Titles}
    \cup {[property_id |-> None, listing_title |-> "a"]}

\* the sqlite failures of the detail phase's appends
DetailFaults == {"none", "insert", "commit"}

\* how driver.get and the waits of one call can end: the record is built, a
\* TimeoutException / NoSuchElementException, a WebDriverException (whose
\* handler calls quit(), which ends the session or raises), any other
\* exception
ExtractOutcomes ==
    {[kind |-> "data", data |-> d, quit |-> "ok"] : d \in Extracted}
    \cup {[kind |-> k, data |-> NoResult, quit |-> "ok"] : k \in {"timeout", "other"}}
    \cup {[kind |-> "wde", data |-> NoResult, quit |-> q] : q \in QuitOutcomes}

\* mutant: the flag is never found set
StopSeen_Never == FALSE

\* `self.stop_requested.is_set()`

StopSeen == stop_requested

\* mutant: the retry loop runs once more
MoreAttempts_OneMore(a) == a <= MAX_RETRIES

\* `for attempt in range(1, MAX_RETRIES + 1)`: another iteration follows
MoreAttempts(a) == a < MAX_RETRIES

\* mutant: the exception of a failed write leaves save_details_to_db
WriteErrorCaught_Never(outcome) == outcome # "error"

\* line 240, `except Exception as e:` inside save_details_to_db
WriteErrorCaught(outcome) == TRUE

\* the manifests the detail phase can find at json_path
DetailManifests == {NoFile, << >>, <<"u1">>, <<"u1", "u2">>}

\* lines 469-485: the file is missing or holds no URL and the method
\* returns, or the loop over urls begins
load_urls ==
    /\ dpc = "start"
    /\ IF manifest = NoFile \/ manifest = << >>
       THEN dpc' = "returned" /\ UNCHANGED idx
       ELSE dpc' = "loop" /\ idx' = 1
    /\ UNCHANGED <<attempt, result, attemptLog, urlLog, loopExit>>

\* lines 488-493 and 442-446: the head of the loop over urls and the entry
\* of scrape_with_retries
loop_head ==
    /\ dpc = "loop"
    /\ IF idx > Len(manifest)
       THEN /\ dpc' = "finally"
            /\ loopExit' = "exhausted"
            /\ UNCHANGED <<attempt, result, attemptLog>>
       ELSE IF StopSeen
       THEN /\ dpc' = "finally"
            /\ loopExit' = "stop"
            /\ UNCHANGED <<attempt, result, attemptLog>>
       ELSE /\ dpc' = "attempt"
            /\ attempt' = 1
            /\ result' = NoResult
            /\ attemptLog' = << >>
            /\ UNCHANGED loopExit
    /\ UNCHANGED <<idx, urlLog>>

\* what one call of extract_listing_details(url) does to the pool and what it
\* returns (lines 322-440): None under the stop flag, None when acquire()
\* raises, otherwise the outcome o of the page on the acquired session
ExtractResult(o, initOk) ==
    LET a == AcquireResult(driver, live, created, StopSeen, initOk)
        h == QuitAndClear(a.driver, a.live, o.quit)
        base == [created |-> a.created, session |-> a.driver.id, data |-> NoResult]
    IN  IF StopSeen
        THEN [driver |-> driver, live |-> live, created |-> created, session |-> 0,
              data |-> NoResult, kind |-> "stopped", pool |-> lastPool]
        ELSE IF a.outcome # "returned"
        THEN [base EXCEPT !.session = 0] @@
             [driver |-> a.driver, live |-> a.live, kind |-> a.outcome,
              pool |-> PoolOp("acquire", a.outcome, a.created)]
        ELSE IF o.kind = "wde"
        THEN base @@ [driver |-> h.driver, live |-> h.live, kind |-> "wde",
                      pool |-> [PoolOp("discard", h.outcome, a.created)
                                   EXCEPT !.before = a.driver]]
        ELSE [base EXCEPT !.data = o.data] @@
             [driver |-> a.driver, live |-> a.live, kind |-> o.kind,
              pool |-> PoolOp("acquire", a.outcome, a.created)]

\* lines 447-463: one iteration of `for attempt in range(1, MAX_RETRIES + 1)`.
\* extract_listing_details catches every Exception and returns None, so the
\* `except Exception` clause of line 458 with its time.sleep(RETRY_DELAY) is
\* never entered: a None is followed by the next iteration at once.
retry_attempt(o, initOk) ==
    /\ dpc = "attempt"
    /\ IF StopSeen
       THEN /\ result' = NoResult
            /\ dpc' = "got"
            /\ UNCHANGED <<attempt, attemptLog, poolVars>>
       ELSE LET e == ExtractResult(o, initOk)
            IN  /\ driver' = e.driver
                /\ live' = e.live
                /\ created' = e.created
                /\ lastPool' = e.pool
                /\ attemptLog' = Append(attemptLog,
                                        [kind |-> e.kind, session |-> e.session,
                                         data |-> e.data])
                /\ IF e.data # NoResult
                   THEN result' = e.data /\ dpc' = "got" /\ UNCHANGED attempt
                   ELSE IF MoreAttempts(attempt)
                   THEN attempt' = attempt + 1 /\ UNCHANGED <<result, dpc>>
                   ELSE result' = NoResult /\ dpc' = "got" /\ UNCHANGED attempt
    /\ UNCHANGED <<idx, urlLog, loopExit>>

UrlSummary(saved) ==
    [url |-> manifest[idx], attempts |-> Len(attemptLog),
     found |-> result # NoResult, saved |-> saved]

\* lines 495-497: `if result: self.save_details_to_db(result)`, then the
\* next url
save_result(fault) ==
    /\ dpc = "got"
    /\ IF result # NoResult /\ DictTruthy(result)
       THEN /\ EntersLock("master", result) \/ fault = "none"
            /\ save_details_to_db("master", result, fault)
            /\ LET out == SaveResult("master", result, fault).outcome
               IN  IF WriteErrorCaught(out)
                   THEN /\ dpc' = "loop"
                        /\ idx' = idx + 1
                        /\ urlLog' = Append(urlLog, UrlSummary(out))
                        /\ UNCHANGED <<loopExit, stop_requested>>
                   ELSE /\ dpc' = "finally"
                        /\ loopExit' = "error"
                        /\ stop_requested' = TRUE
                        /\ urlLog' = Append(urlLog, UrlSummary(out))
                        /\ UNCHANGED idx
       ELSE /\ fault = "none"
            /\ dpc' = "loop"
            /\ idx' = idx + 1
            /\ urlLog' = Append(urlLog, UrlSummary("none"))
            /\ UNCHANGED <<storeVars, loopExit, stop_requested>>
    /\ UNCHANGED <<attempt, result, attemptLog>>

\* lines 499-501: a KeyboardInterrupt inside the try block
keyboard_interrupt ==
    /\ dpc \in {"loop", "attempt", "got"}
    /\ stop_requested' = TRUE
    /\ dpc' = "finally"
    /\ loopExit' = "interrupt"
    /\ UNCHANGED <<idx, attempt, result, attemptLog, urlLog>>

\* lines 505-514: finally: self.shutdown(): the flag, close_all, _close_db
shutdown(q) ==
    /\ dpc = "finally"
    /\ dpc' = "done"
    /\ stop_requested' = TRUE
    /\ close_all(q)
    /\ close_db("master")
    /\ UNCHANGED <<idx, attempt, result, attemptLog, urlLog, loopExit>>

\* a Scraper as its constructor leaves it; the stop flag is set already when
\* the same Scraper has walked the menu pages before and its breaker tripped
DetailInit ==
    /\ StoreInit
    /\ ConcIdle
    /\ PoolStarted
    /\ manifest \in DetailManifests
    /\ stop_requested \in BOOLEAN
    /\ wpc = "idle"
    /\ page_num = 0
    /\ retry = 0
    /\ consecutive_http_errors = 0
    /\ consecutive_empty_pages = 0
    /\ all_scraped_urls = {}
    /\ fetchLog = << >>
    /\ pageLog = << >>
    /\ stopCause = "none"
    /\ dpc = "start"
    /\ idx = 0
    /\ attempt = 0
    /\ result = NoResult
    /\ attemptLog = << >>
    /\ urlLog = << >>
    /\ loopExit = "none"

detailFrame == <<concVars, walkRest, fileVars>>

DetailNext ==
    \/ load_urls /\ UNCHANGED <<detailFrame, storeVars, poolVars, stop_requested>>
    \/ loop_head /\ UNCHANGED <<detailFrame, storeVars, poolVars, stop_requested>>
    \/ \E o \in ExtractOutcomes, initOk \in BOOLEAN :
          retry_attempt(o, initOk) /\ UNCHANGED <<detailFrame, storeVars, stop_requested>>
    \/ \E f \in DetailFaults : save_result(f) /\ UNCHANGED <<detailFrame, poolVars>>
    \/ keyboard_interrupt /\ UNCHANGED <<detailFrame, storeVars, poolVars>>
    \/ \E q \in QuitOutcomes : shutdown(q) /\ UNCHANGED detailFrame
    \/ SessionDrops /\ dpc = "attempt"
                    /\ UNCHANGED <<detailFrame, storeVars, detailVars, stop_requested>>

SpecDetail == DetailInit /\ [][DetailNext]_vars


(***************************************************************************)
(* The two storage variants side by side (SpecEquiv): every record goes to *)
(* Scraper.save_details_to_db on the master file and to                    *)
(* DatabaseManager.save_listing on a second file, both starting empty.     *)
(***************************************************************************)
\* mutant: only the rows found are flagged, the new row is not
ExistsFlag_Zero(found) == 0

\* db_utils.py lines 66-69: has_updated_flag = 0; if exists: ... = 1
ExistsFlag(found) == IF found THEN 1 ELSE 0

\* DatabaseManager.save_listing(listing, fnames) on store s (db_utils.py
\* lines 41-97): the connection's view, the committed rows and the outcome
SaveListingResult(s, listing, fnames, fault) ==
    LET data == JoinFeatures(listing)
        data_to_insert == [k \in (DOMAIN data) \cap fnames |-> data[k]]
        property_id == Get(data_to_insert, "property_id")
        rows0 == view[s]
        found == CountRows(rows0, property_id) > 0
        rows1 == IF found THEN FlagRows(rows0, property_id) ELSE rows0
        rows2 == InsertRow(rows1, data_to_insert, ExistsFlag(found))
        R(v, d, o) == [view |-> v, disk |-> d, outcome |-> o]
    IN  IF ~DictTruthy(listing) \/ ~conn[s] THEN R(rows0, disk[s], "noop")
        ELSE IF ~StrTruthy(property_id) THEN R(rows0, disk[s], "skipped")
        ELSE CASE fault = "select" -> R(rows0, disk[s], "error")
               [] fault = "insert" -> R(rows1, disk[s], "error")
               [] fault = "insert_rb" -> R(disk[s], disk[s], "error")
               [] fault = "commit" -> R(rows2, disk[s], "error")
               [] OTHER -> R(rows2, rows2, "saved")

\* the records of the comparison
EquivListings == Listings \cup FeatureListings

\* one record through both variants
save_both(listing) ==
    /\ Cardinality(view["master"]) < MaxRows
    /\ LET a == SaveResult("master", listing, "none")
           b == SaveListingResult("secondary", listing, fieldnames, "none")
       IN  /\ view' = [view EXCEPT !["master"] = a.view, !["secondary"] = b.view]
           /\ disk' = [disk EXCEPT !["master"] = a.disk, !["secondary"] = b.disk]
           /\ lastOp' = [NoOp EXCEPT !.op = "append", !.store = "master",
                                     !.listing = listing, !.outcome = a.outcome,
                                     !.before = view["master"]]
    /\ UNCHANGED <<exists, conn>>

\* a Scraper on the master file and a DatabaseManager on the second file,
\* both just constructed on empty files
EquivInit ==
    /\ view = EmptyStore
    /\ disk = EmptyStore
    /\ exists = [s \in Stores |-> TRUE]
    /\ conn = [s \in Stores |-> TRUE]
    /\ lastOp = NoOp
    /\ ConcIdle
    /\ WalkIdle
    /\ FileIdle
    /\ PoolIdle
    /\ DetailIdle

EquivNext ==
    \E l \in EquivListings :
        save_both(l) /\ UNCHANGED <<concVars, walkVars, fileVars, poolVars, detailVars>>

SpecEquiv == EquivInit /\ [][EquivNext]_vars


(***************************************************************************)
(* Properties of the store (Spec).                                         *)
(***************************************************************************)
RowsOf(rows, pid) == {r \in rows : r.property_id = pid}
PidsOf(rows) == {r.property_id : r \in rows}
\* rows that agree in every column but the id
SameContent(r, x) ==
    /\ r.property_id = x.property_id
    /\ r.listing_title = x.listing_title
    /\ r.has_updated = x.has_updated
CountLike(rows, r) == Cardinality({x \in rows : SameContent(r, x)})

SavedAppend == lastOp.op = "append" /\ lastOp.outcome = "saved"

C4_NoIdentityDropped ==
    (lastOp.op = "append" /\ Get(lastOp.listing, "property_id") = None) =>
        /\ lastOp.outcome \in {"noop", "skipped"}
        /\ view[lastOp.store] = lastOp.before
        /\ \A r \in view[lastOp.store] : r.property_id # None

\* a listing without identity was handed to an open store that holds rows
C4_Witness ==
    /\ lastOp.op = "append" /\ Get(lastOp.listing, "property_id") = None
    /\ lastOp.outcome = "skipped"
    /\ lastOp.before # {}

\* C5: get_latest_listings returns, for every property_id in the store,
\* exactly one row, the one with the greatest id among the rows of that
\* property_id; it returns nothing else and leaves the store as it was.
C5_LatestPerIdentity ==
    (lastOp.op = "latest" /\ lastOp.outcome = "rows") =>
        LET rows == view[lastOp.store]
            res == lastOp.result
        IN  /\ rows = lastOp.before
            /\ res \subseteq rows
            /\ \A p \in PidsOf(rows) :
                 /\ Cardinality(RowsOf(res, p)) = 1
                 /\ \A r \in RowsOf(res, p) : r.id = Max(Ids(RowsOf(rows, p)))

\* latest was read from a store with two identities, one in several versions
C5_Witness ==
    /\ lastOp.op = "latest" /\ lastOp.outcome = "rows"
    /\ Cardinality(PidsOf(lastOp.before)) = 2
    /\ \E p \in PidsOf(lastOp.before) : Cardinality(RowsOf(lastOp.before, p)) >= 2

\* C6: a merge that runs keeps every row the master held (columns and flag),
\* adds exactly the rows of the secondary whose property_id is in no row the
\* master held, every version of them, and none whose property_id the master
\* held, whatever its content; the reported count is the number of rows added.
C6_MergeIdentityExclusive ==
    (lastOp.op = "merge" /\ lastOp.outcome = "merged") =>
        LET b == lastOp.before
            a == disk["master"]
            S == disk["secondary"]
            added == a \ b
            wanted == {r \in S : r.property_id \notin PidsOf(b)}
        IN  /\ b \subseteq a
            /\ Cardinality(a) = Cardinality(b) + Cardinality(added)
            /\ \A r \in added : r.id \notin Ids(b)
            /\ \A r \in added : r.property_id \notin PidsOf(b)
            /\ Cardinality(added) = Cardinality(wanted)
            /\ \A r \in wanted : CountLike(added, r) = CountLike(wanted, r)
            /\ lastOp.reported = Cardinality(added)
            /\ view["master"] = a

\* a merge ran where the secondary held an identity of the master in another
\* content and an identity the master lacked
C6_Witness ==
    /\ lastOp.op = "merge" /\ lastOp.outcome = "merged"
    /\ lastOp.reported >= 1
    /\ \E r \in disk["secondary"] : \E x \in lastOp.before :
          r.property_id = x.property_id /\ r.listing_title # x.listing_title
    /\ \A r \in disk["secondary"] : \A x \in lastOp.before :
          r.property_id = x.property_id => r.listing_title # x.listing_title

\* C7: when the secondary path does not exist, merge returns after reporting
\* the error: the master is not opened and its rows are as before.
C7_MergeMissingSecondary ==
    (lastOp.op = "merge" /\ ~exists["secondary"]) =>
        /\ lastOp.outcome = "not_found"
        /\ ~lastOp.opened
        /\ lastOp.reported = -1
        /\ disk["master"] = lastOp.before

\* merge was called with no secondary file while the master held rows
C7_Witness ==
    /\ lastOp.op = "merge" /\ ~exists["secondary"]
    /\ lastOp.before # {}

(***************************************************************************)
(* Properties of concurrent appends (SpecConc).                            *)
(***************************************************************************)
\* both calls are over, were for the same identity, absent at the start,
\* and both wrote their row
BothSaved(t1, t2) ==
    /\ t1 # t2
    /\ tpc[t1] = "done" /\ tpc[t2] = "done"
    /\ tloc[t1].outcome = "saved" /\ tloc[t2].outcome = "saved"
    /\ Get(tloc[t1].listing, "property_id") = Get(tloc[t2].listing, "property_id")
    /\ RowsOf(lastOp.before, Get(tloc[t1].listing, "property_id")) = {}

LastPage == pageLog[Len(pageLog)]

\* C8: the walk is halted by HTTP errors only when three consecutive page
\* indices each ended with all their retries spent on HTTP errors (so never
\* before the third page), and a page whose retries were all spent on HTTP
\* errors halts the walk only as the third such page in a row.
C8_BreakerCountsPages ==
    /\ stopCause = "http" =>
          /\ Len(pageLog) >= 3
          /\ \A i \in (Len(pageLog) - 2)..Len(pageLog) : pageLog[i].allHttp
    /\ (/\ Len(pageLog) >= 3
        /\ \A i \in (Len(pageLog) - 2)..Len(pageLog) : pageLog[i].allHttp)
       => stop_requested

\* C9: when a page index has all its MAX_RETRIES attempts fail right after a
\* page that succeeded, and nobody asked from outside to stop, the stop flag
\* is not set as the walker leaves the page.
C9_SingleFailedPageGoesOn ==
    (/\ wpc = "page_end"
     /\ Len(pageLog) >= 2
     /\ LastPage.allFailed
     /\ pageLog[Len(pageLog) - 1].result = "ok"
     /\ stopCause # "external") => ~stop_requested

\* C10: once page N has yielded links and page N+1 has been fetched with
\* success and yielded none, no page of an index above N+1 is fetched.
C10_ZeroLinksEndsWalk ==
    \A i \in 1..(Len(pageLog) - 1) :
        (/\ pageLog[i].result = "ok" /\ pageLog[i].links
         /\ pageLog[i + 1].result = "ok" /\ ~pageLog[i + 1].links)
        => ~(page_num > pageLog[i + 1].page /\ wpc = "fetching")

\* C11: once cancellation is signalled (from outside or by the walker's own
\* breaker) and no fetch is in flight, no page fetch is started and the
\* accumulated set stays as it is; the walker returns that set U, and the
\* save that follows leaves a manifest whose set of URLs is exactly U.
C11_CancelKeepsPartialUrls ==
    [][/\ (stop_requested /\ wpc # "fetching")
          => (wpc' # "fetching" /\ all_scraped_urls' = all_scraped_urls)
       /\ (stop_requested /\ wpc = "returned" /\ wpc' = "saved")
          => (manifest' # NoFile /\ Range(manifest') = all_scraped_urls)]_vars

(***************************************************************************)
(* Properties of the session pool (SpecPool).                              *)
(***************************************************************************)
\* C14: acquire() under a set stop flag raises the cancellation error and
\* starts no session; under a clear flag it returns an active session (or
\* fails with the error of a browser that cannot be started, holding no new
\* session), and it starts a session exactly when the held one was absent or
\* not active; at no time is more than one session live.
C14_AcquireContract ==
    /\ Cardinality(live) <= 1
    /\ lastPool.op = "acquire" =>
          /\ lastPool.stop <=> lastPool.outcome = "cancelled"
          /\ lastPool.stop => (lastPool.started = 0 /\ driver = lastPool.before)
          /\ lastPool.outcome = "returned" =>
                /\ Active(driver)
                /\ live = {driver.id}
                /\ lastPool.started = 1 <=> ~Active(lastPool.before)
                /\ lastPool.started = 0 => driver = lastPool.before
          /\ lastPool.outcome = "init_failed" =>
                /\ ~lastPool.stop
                /\ ~Active(lastPool.before)
                /\ lastPool.started = 0
                /\ driver = lastPool.before

\* acquire() has replaced a held session that was no longer active
C14_Witness ==
    /\ lastPool.op = "acquire"
    /\ lastPool.outcome = "returned"
    /\ Held(lastPool.before)
    /\ lastPool.started = 1
    /\ ~stop_requested

\* C15: after close_all() the pool holds no session, whether the teardown of
\* the held session succeeded or raised.
C15_CloseAllClears ==
    lastPool.op = "close_all" => driver = NoDriver

(***************************************************************************)
(* Properties of the detail phase (SpecDetail).                            *)
(***************************************************************************)
\* C12: for every URL the extractor is called at most MAX_RETRIES times and
\* never again after a call that built a record; that record is what
\* scrape_with_retries returns.  When all MAX_RETRIES calls come back empty
\* it returns None, the stop flag is still clear, and the loop goes on: it is
\* left before the last URL only by a stop request or an interrupt.
C12_RetriesBounded ==
    /\ Len(attemptLog) <= MAX_RETRIES
    /\ \A k \in 1..(Len(attemptLog) - 1) : attemptLog[k].data = NoResult
    /\ dpc = "got" =>
          /\ Len(attemptLog) >= 1
          /\ result = attemptLog[Len(attemptLog)].data
          /\ result = NoResult => Len(attemptLog) = MAX_RETRIES
          /\ ~stop_requested
    /\ \A j \in 1..Len(urlLog) :
          /\ urlLog[j].attempts <= MAX_RETRIES
          /\ ~urlLog[j].found => urlLog[j].attempts = MAX_RETRIES
    /\ loopExit = "exhausted" => Len(urlLog) = Len(manifest)
    /\ loopExit = "stop" => urlLog = << >>
    /\ loopExit # "error"

\* the first URL used up its three attempts, the second gave its record at
\* the second attempt
C12_Witness ==
    /\ Len(urlLog) = 2
    /\ ~urlLog[1].found /\ urlLog[1].attempts = MAX_RETRIES
    /\ urlLog[2].found /\ urlLog[2].attempts = 2
    /\ ~stop_requested

\* C13: in both retry loops, an attempt that failed and the next attempt on
\* the same URL or page have a sleep of RETRY_DELAY between them.
C13_DelayBetweenAttempts ==
    /\ \A k \in 1..(Len(attemptLog) - 1) :
          attemptLog[k].kind # "sleep" => attemptLog[k + 1].kind = "sleep"
    /\ \A k \in 1..(Len(fetchLog) - 1) :
          fetchLog[k] # "sleep" => fetchLog[k + 1] = "sleep"

\* C16: when a call of the extractor ends in a WebDriverException (the stop
\* flag being clear), the session it ran on is discarded: the pool holds no
\* session until the next acquire() starts one, no later attempt runs on the
\* failed session, and the same URL is attempted again if attempts remain.
C16_FailedSessionDiscarded ==
    \A k \in 1..Len(attemptLog) :
        attemptLog[k].kind = "wde" =>
            /\ \A m \in (k + 1)..Len(attemptLog) :
                  attemptLog[m].session # attemptLog[k].session
            /\ (k = Len(attemptLog) /\ dpc = "attempt") => driver = NoDriver
            /\ (k = Len(attemptLog) /\ k < MAX_RETRIES) =>
                  (dpc = "attempt" \/ loopExit = "interrupt")

\* C17: a store write that fails while the record of a URL is appended is
\* caught inside the append: nothing is raised to the loop, the stop flag
\* stays as it was (it is set only by an interrupt or by the shutdown at the
\* end), and the loop goes on to extract and append every later URL.
C17_WriteFailureGoesOn ==
    \A j \in 1..Len(urlLog) :
        urlLog[j].saved = "error" =>
            /\ loopExit \in {"none", "exhausted", "interrupt"}
            /\ stop_requested => (loopExit = "interrupt" \/ dpc = "done")
            /\ loopExit = "exhausted" => Len(urlLog) = Len(manifest)
            /\ \A m \in (j + 1)..Len(urlLog) :
                  /\ urlLog[m].attempts >= 1
                  /\ urlLog[m].found => urlLog[m].saved # "none"

\* the append of the first URL's record failed, the second URL was extracted
\* and its record appended
C17_Witness ==
    /\ Len(urlLog) = 2
    /\ urlLog[1].saved = "error"
    /\ urlLog[2].found /\ urlLog[2].saved = "saved"
    /\ loopExit = "exhausted"

\* C18: in the detail phase the stop flag, once set, stays set, and from then
\* on no extraction attempt is started, the pool hands out and starts no
\* session, and the committed rows of the store stay exactly as they are.
C18_StopIsFinal ==
    [][stop_requested =>
          /\ stop_requested'
          /\ attemptLog' = attemptLog
          /\ created' = created
          /\ lastPool' # lastPool => lastPool'.op = "close_all"
          /\ disk' = disk]_vars

\* an interrupt ended the loop after a row had been appended, and the
\* shutdown has run
C18_Witness ==
    /\ dpc = "done"
    /\ loopExit = "interrupt"
    /\ Len(urlLog) >= 1
    /\ disk["master"] # NoRows
    /\ stop_requested

(***************************************************************************)
(* The change flag over appends and merges (Spec).                         *)
(***************************************************************************)
FlagsAgree(rows) ==
    \A r \in rows :
        r.has_updated = (IF CountRows(rows, r.property_id) >= 2 THEN 1 ELSE 0)

\* C19: in every committed state of a store reached from the empty store by
\* appends and merges, the rows of one property_id carry the same has_updated
\* and it is 1 exactly when the identity has two rows or more; a flag that
\* is 1 is never 0 again.
C19_FlagsAgreePerIdentity ==
    [][\A s \in Stores :
          /\ FlagsAgree(disk'[s])
          /\ \A r \in disk[s] :
                r.has_updated = 1 =>
                    \E x \in disk'[s] : x.id = r.id /\ x.has_updated = 1]_vars

(***************************************************************************)
(* The accumulated URL set of the walk (SpecWalk).                         *)
(***************************************************************************)
\* the links of the pages fetched with success among the first n pages left
LinksOfPages(n) ==
    UNION {pageLog[i].got : i \in {j \in 1..n : pageLog[j].result = "ok"}}

\* C20: through every step of the walk the accumulated set is the union of
\* the link sets of the pages fetched with success so far (each URL held
\* once, a page left without a successful fetch adding nothing), and it only
\* grows.
C20_UrlsAreUnionOfPages ==
    [][/\ all_scraped_urls' = LinksOfPages(Len(pageLog))'
       /\ all_scraped_urls \subseteq all_scraped_urls'
       /\ \A i \in 1..Len(pageLog') :
             pageLog'[i].result # "ok" => pageLog'[i].got = {}]_vars

\* two pages gave overlapping links and a page between them failed
C20_Witness ==
    /\ Len(pageLog) = 3
    /\ pageLog[1].result = "ok" /\ pageLog[1].got = {"u1"}
    /\ pageLog[2].result = "exhausted"
    /\ pageLog[3].result = "ok" /\ pageLog[3].got = {"u1", "u2"}
    /\ all_scraped_urls = {"u1", "u2"}

(***************************************************************************)
(* The manifest after the walk (SpecWalk).                                 *)
(***************************************************************************)
\* C21: whatever set the walk hands to save_urls, the empty one included,
\* the manifest afterwards is an array without duplicates whose elements are
\* exactly that set, so that the detail phase loads the URLs of this walk and
\* none of an earlier run.
C21_ManifestIsTheSet ==
    wpc = "saved" =>
        /\ manifest # NoFile
        /\ Range(manifest) = all_scraped_urls
        /\ Len(manifest) = Cardinality(all_scraped_urls)

(***************************************************************************)
(* Termination of the walk (SpecWalkFair).                                 *)
(***************************************************************************)
\* the pages left so far are the indices 1, 2, ... in this order, each with
\* at most MAX_RETRIES fetches
WalkBounded ==
    /\ page_num \in 1..TOTAL_PAGES
    /\ Len(pageLog) <= TOTAL_PAGES
    /\ \A i \in 1..Len(pageLog) :
          /\ pageLog[i].page = i
          /\ pageLog[i].nfetch <= MAX_RETRIES
    /\ Len(Fetched) <= MAX_RETRIES
    /\ Len(pageLog) \in {page_num - 1, page_num}

\* C22: whatever the fetches bring, the walk visits the page indices from 1
\* upwards in increasing order without going back, fetches each at most
\* MAX_RETRIES times (so at most TOTAL_PAGES * MAX_RETRIES times in all),
\* and in the end returns the accumulated set.
C22_WalkTerminates ==
    /\ []WalkBounded
    /\ <>(wpc \in {"returned", "saved"})

\* the walk has returned after MAX_RETRIES failed fetches on every one of
\* the TOTAL_PAGES pages
C22_Witness ==
    /\ wpc = "returned"
    /\ ~stop_requested
    /\ Len(pageLog) = TOTAL_PAGES
    /\ \A i \in 1..Len(pageLog) : pageLog[i].nfetch = MAX_RETRIES

(***************************************************************************)
(* The two storage variants (SpecEquiv).                                   *)
(***************************************************************************)
\* C23: after every record of every sequence, save_details_to_db and
\* save_listing (called with the scraper's field list) have left equal
\* stores: the same rows with the same property_ids and has_updated flags,
\* also for records without property_id.
C23_VariantsAgree ==
    /\ view["master"] = view["secondary"]
    /\ disk["master"] = disk["secondary"]

\* both variants hold a flagged pair of p1 with a joined features list,
\* and the last record, without property_id, was skipped
C23_Witness ==
    /\ lastOp.op = "append"
    /\ lastOp.outcome = "skipped"
    /\ Cardinality(RowsOf(view["secondary"], "p1")) = 2
    /\ \A r \in RowsOf(view["secondary"], "p1") : r.has_updated = 1
    /\ \E r \in view["secondary"] : r.features = "x; y"

(***************************************************************************)
(* Failed appends and repeated merges (Spec).                              *)
(***************************************************************************)
\* C24: when an append fails without having added its row (the INSERT
\* failed), the store as the connection shows it holds no effect of the
\* call: every row that was there before has the has_updated it had before.
C24_FailedAppendLeavesNoTrace ==
    (/\ lastOp.op = "append"
     /\ lastOp.outcome = "error"
     /\ Ids(view[lastOp.store]) = Ids(lastOp.before))
    => \A r \in lastOp.before :
          \E x \in view[lastOp.store] : x.id = r.id /\ x.has_updated = r.has_updated

\* C25: a merge that directly follows a successful merge of the same
\* secondary store adds no row, reports 0 and leaves the master as the first
\* merge left it.
C25_MergeIdempotent ==
    (lastOp.op = "merge" /\ lastOp.twice) =>
        /\ lastOp.outcome = "merged"
        /\ lastOp.reported = 0
        /\ disk["master"] = lastOp.before
        /\ view["master"] = lastOp.before

\* the second merge of a secondary store whose rows the first merge added
\* to a master that already held rows of its own
C25_Witness ==
    /\ lastOp.op = "merge" /\ lastOp.twice
    /\ disk["secondary"] # {}
    /\ \E r \in disk["master"] : r.property_id \notin {x.property_id : x \in disk["secondary"]}
    /\ \E r \in disk["master"] : r.property_id \in {x.property_id : x \in disk["secondary"]}

(***************************************************************************)
(* Scraper.shutdown called in any state, and called again (SpecShutdown).  *)
(* dpc tells how often shutdown has run: "up", "down", "down_again".       *)
(* Worker threads may still be inside acquire, the session error handler   *)
(* or save_details_to_db while and after shutdown runs.                    *)
(***************************************************************************)
\* lines 167-172, _close_db: `if self.conn: self.conn.close(); self.conn = None`
Scraper_close_db ==
    IF conn["master"] THEN close_db("master") ELSE UNCHANGED storeVars

\* lines 509-514, shutdown: set the flag, close the pool, close the store
shutdown_any(q) ==
    /\ dpc \in {"up", "down"}
    /\ dpc' = IF dpc = "up" THEN "down" ELSE "down_again"
    /\ stop_requested' = TRUE
    /\ close_all(q)
    /\ Scraper_close_db

\* Scraper.__init__: the pool with its first session, the store connected
ShutdownInit ==
    /\ StoreInit
    /\ ConcIdle
    /\ WalkIdle
    /\ FileIdle
    /\ PoolStarted
    /\ dpc = "up"
    /\ idx = 0
    /\ attempt = 0
    /\ result = NoResult
    /\ attemptLog = << >>
    /\ urlLog = << >>
    /\ loopExit = "none"

shutdownFrame == <<concVars, walkRest, fileVars, idx, attempt, result,
                   attemptLog, urlLog, loopExit>>

ShutdownNext ==
    \/ \E q \in QuitOutcomes :
          shutdown_any(q) /\ UNCHANGED shutdownFrame
    \/ \E initOk \in BOOLEAN :
          acquire(initOk) /\ UNCHANGED <<shutdownFrame, storeVars, stop_requested, dpc>>
    \/ \E q \in QuitOutcomes :
          discard_failed(q) /\ UNCHANGED <<shutdownFrame, storeVars, stop_requested, dpc>>
    \/ SessionDrops /\ UNCHANGED <<shutdownFrame, storeVars, stop_requested, dpc>>
    \/ SetStop /\ UNCHANGED <<shutdownFrame, storeVars, poolVars, dpc>>
    \/ \E l \in Listings, f \in DetailFaults :
          /\ EntersLock("master", l) \/ f = "none"
          /\ save_details_to_db("master", l, f)
          /\ UNCHANGED <<shutdownFrame, poolVars, stop_requested, dpc>>
    \/ Scraper_close_db /\ dpc = "up" /\ conn["master"]
          /\ UNCHANGED <<shutdownFrame, poolVars, stop_requested, dpc>>

SpecShutdown == ShutdownInit /\ [][ShutdownNext]_vars

\* C26: once shutdown has run, and again after it has run a second time, the
\* stop flag is set, the pool holds no session and the store connection is
\* closed; an append made after shutdown writes nothing.
C26_ShutdownIdempotent ==
    dpc \in {"down", "down_again"} =>
        /\ stop_requested
        /\ ~Held(driver)
        /\ ~conn["master"]
        /\ lastOp.op = "append" =>
              /\ lastOp.outcome = "noop"
              /\ view["master"] = lastOp.before
              /\ view["master"] = disk["master"]

\* the parts of C26 that do not depend on the session: flag and connection
\* after shutdown, and the append that writes nothing
ShutdownStoreAndFlag ==
    dpc \in {"down", "down_again"} =>
        /\ stop_requested
        /\ ~conn["master"]
        /\ lastOp.op = "append" =>
              /\ lastOp.outcome = "noop"
              /\ view["master"] = lastOp.before
              /\ view["master"] = disk["master"]

\* C26 for the shutdowns whose quit() returned: no session is held
ShutdownClearsWhenQuitReturns ==
    (dpc \in {"down", "down_again"} /\ lastPool.op = "close_all"
        /\ lastPool.outcome # "quit_raised") => ~Held(driver)

====
